---- MODULE Spec2Model ----
(***************************************************************************)
(* A model of SceneManager (src/SceneManager.cpp): the texture registry,   *)
(* the material registry and the uniform submission layer, together with   *)
(* the part of the OpenGL context and of the shader program they act on.   *)
(***************************************************************************)
EXTENDS Integers, Sequences, FiniteSets, TLC

VARIABLES
    m_pShaderManager,   \* "NULL" or "shader": the pointer the constructor stores
    m_textureIDs,       \* array of TEXTURE_INFO {ID, tag}, indexed from 0
    m_loadedTextures,   \* number of registered textures
    m_objectMaterials,  \* std::vector<OBJECT_MATERIAL>
    glNames,            \* texture names handed out by glGenTextures and never deleted
    glActiveTexture,    \* the active texture unit (index i of GL_TEXTURE0 + i)
    glBinding,          \* per texture unit, the name bound to GL_TEXTURE_2D (0: none)
    imageBuffers,       \* decoded image buffers from stbi_load not yet freed
    uniforms,           \* the uniform values of the shader program
    crashed,            \* a NULL m_pShaderManager was dereferenced and the process died
    loadLog,            \* history: one record per CreateGLTexture call
    lastCall,           \* history: the operation called last, and its tag argument
    texSubmits,         \* history: the values submitted as objectTexture by the
                        \* calls of SetShaderTexture that end the run (at most two)
    pc,                 \* the call of PrepareScene or RenderScene that is next
    objectCalls,        \* history: the calls RenderScene made for the object it
                        \* is at, up to and including the object's draw call
    textureCalls        \* history: the CreateGLTexture and BindGLTextures calls
                        \* of PrepareScene and RenderScene, in order

vars == <<m_pShaderManager, m_textureIDs, m_loadedTextures, m_objectMaterials,
          glNames, glActiveTexture, glBinding, imageBuffers, uniforms, crashed,
          loadLog, lastCall, texSubmits, pc, objectCalls,
          textureCalls>>

\* the call of operation op with tag argument tag (or "") is the last one
Called(op, tag) == lastCall' = [op |-> op, tag |-> tag]

texVars == <<m_textureIDs, m_loadedTextures>>
glVars == <<glNames, glActiveTexture, glBinding>>
\* what only the calls PrepareScene and RenderScene make change
sceneVars == <<pc, objectCalls, textureCalls>>

----------------------------------------------------------------------------
(* Bounds of the model *)

\* a caller of the class calls CreateGLTexture at most MaxLoads times in a
\* behaviour; fewer than MaxTextures, so that m_textureIDs[m_loadedTextures]
\* is inside the array
MaxLoads == 3
\* a caller of the class pushes at most MaxMaterials materials onto
\* m_objectMaterials
MaxMaterials == 2
\* glGenTextures hands out at most MaxNames texture names to a caller of the
\* class
MaxNames == 6
\* at most MaxFailedLoads of the image files of LoadSceneTextures fail to load
MaxFailedLoads == 1

(* Program constants *)

\* size of the m_textureIDs array, and number of texture units
MaxTextures == 16

----------------------------------------------------------------------------
(* Inputs *)

\* tags passed to CreateGLTexture and SetShaderTexture
TextureTags == {"onyx", "ice", "wood"}

\* image files, and what stbi_load makes of each: no image, or an image with
\* so many colour channels
Files == {"missing.jpg", "gray.jpg", "rgb.jpg", "rgba.png"}

NoImage == 0

stbi_load(filename) ==
    CASE filename = "missing.jpg" -> NoImage
      [] filename = "gray.jpg"    -> 1
      [] filename = "rgb.jpg"     -> 3
      [] filename = "rgba.png"    -> 4

TextureUnits == 0 .. (MaxTextures - 1)

----------------------------------------------------------------------------
(* The OpenGL context *)

\* glGenTextures(1, &id): a name that is not in use
glGenTextures == CHOOSE n \in 1 .. (Cardinality(glNames) + 1) : n \notin glNames

\* glBindTexture(GL_TEXTURE_2D, name) on the active unit
glBindTexture(binding, unit, name) == [binding EXCEPT ![unit] = name]

----------------------------------------------------------------------------
(* Texture registry *)

\* the registered entries, in slot order
Registry == [i \in 0 .. (m_loadedTextures - 1) |-> m_textureIDs[i]]

RECURSIVE ScanTextures(_, _)
\* the while loop of FindTextureID and FindTextureSlot: the first index at or
\* after index whose tag compares equal, or m_loadedTextures
ScanTextures(tag, index) ==
    IF index < m_loadedTextures
    THEN IF m_textureIDs[index].tag = tag
         THEN index
         ELSE ScanTextures(tag, index + 1)
    ELSE m_loadedTextures

FindTextureID(tag) ==
    LET index == ScanTextures(tag, 0)
    IN  IF index < m_loadedTextures THEN m_textureIDs[index].ID ELSE -1

\* FindTextureSlot returning the texture's ID, as FindTextureID does
FindTextureSlotAsID(tag) == FindTextureID(tag)

\* FindTextureSlot with textureSlot initialised to 0
FindTextureSlotFromZero(tag) ==
    LET index == ScanTextures(tag, 0)
    IN  IF index < m_loadedTextures THEN index ELSE 0

FindTextureSlot(tag) ==
    LET index == ScanTextures(tag, 0)
    IN  IF index < m_loadedTextures THEN index ELSE -1

\* RegistryAfterLoad with the entry written before the channel count is looked at
RegistryAfterLoadEarly(image, textureID, tag) ==
    IF image # NoImage
    THEN [ids |-> [m_textureIDs EXCEPT
                     ![m_loadedTextures] = [ID |-> textureID, tag |-> tag]],
          n |-> m_loadedTextures + 1]
    ELSE [ids |-> m_textureIDs, n |-> m_loadedTextures]

\* m_textureIDs and m_loadedTextures when CreateGLTexture returns, for the
\* image stbi_load returned and the name glGenTextures handed out: the entry
\* is written only on the path through the RGB or RGBA upload
RegistryAfterLoad(image, textureID, tag) ==
    IF image # NoImage /\ image \in {3, 4}
    THEN [ids |-> IF m_loadedTextures < MaxTextures
                  THEN [m_textureIDs EXCEPT
                          ![m_loadedTextures] = [ID |-> textureID, tag |-> tag]]
                  ELSE \* the write goes to the memory behind the array
                       m_textureIDs,
          n |-> m_loadedTextures + 1]
    ELSE [ids |-> m_textureIDs, n |-> m_loadedTextures]

\* how the write of m_textureIDs[m_loadedTextures] can end: inside the array
\* it is done; behind the array the process dies, or the write changes memory
\* that is not the array's and the call goes on
ArrayWrite(image) ==
    IF image \in {3, 4} /\ m_loadedTextures >= MaxTextures
    THEN {"crash", "stray"}
    ELSE {"done"}

CreateGLTexture(filename, tag) ==
    LET image == stbi_load(filename)
        textureID == glGenTextures
        registry == RegistryAfterLoad(image, textureID, tag)
    IN  /\ ~crashed
        /\ \E write \in ArrayWrite(image) :
             /\ crashed' = (write = "crash")
             /\ m_textureIDs' = registry.ids
             /\ m_loadedTextures' = IF write = "crash"
                                    THEN m_loadedTextures
                                    ELSE registry.n
        /\ IF image # NoImage
           THEN IF image \in {3, 4}
                THEN \* upload, free the image, unbind, register, return true
                     /\ glNames' = glNames \cup {textureID}
                     /\ glBinding' = glBindTexture(glBinding, glActiveTexture, 0)
                     /\ imageBuffers' = imageBuffers
                     /\ loadLog' = Append(loadLog,
                            [tag |-> tag, ok |-> TRUE, ID |-> textureID])
                ELSE \* return false with the texture bound and the image not freed
                     /\ glNames' = glNames \cup {textureID}
                     /\ glBinding' = glBindTexture(glBinding, glActiveTexture, textureID)
                     /\ imageBuffers' = imageBuffers + 1
                     /\ loadLog' = Append(loadLog,
                            [tag |-> tag, ok |-> FALSE, ID |-> textureID])
           ELSE \* stbi_load returned no image: return false
                /\ UNCHANGED <<glNames, glBinding, imageBuffers>>
                /\ loadLog' = Append(loadLog, [tag |-> tag, ok |-> FALSE, ID |-> 0])
        /\ Called("CreateGLTexture", "")
        /\ texSubmits' = << >>
        /\ UNCHANGED <<m_pShaderManager, m_objectMaterials, glActiveTexture,
                       uniforms>>

RECURSIVE BindLoop(_, _)
\* the for loop of BindGLTextures from index i: the bindings it leaves
BindLoop(binding, i) ==
    IF i < m_loadedTextures
    THEN BindLoop(glBindTexture(binding, i, m_textureIDs[i].ID), i + 1)
    ELSE binding

BindGLTextures ==
    /\ ~crashed
    /\ glBinding' = BindLoop(glBinding, 0)
    /\ glActiveTexture' = IF m_loadedTextures > 0
                          THEN m_loadedTextures - 1
                          ELSE glActiveTexture
    /\ Called("BindGLTextures", "")
    /\ texSubmits' = << >>
    /\ UNCHANGED <<m_pShaderManager, texVars, m_objectMaterials, glNames,
                   imageBuffers, uniforms, crashed, loadLog>>

RECURSIVE DestroyLoop(_, _, _)
\* the for loop of DestroyGLTextures from index i: glGenTextures writes a new
\* name into each registered entry's ID
DestroyLoop(ids, names, i) ==
    IF i < m_loadedTextures
    THEN LET n == CHOOSE n \in 1 .. (Cardinality(names) + 1) : n \notin names
         IN  DestroyLoop([ids EXCEPT ![i].ID = n], names \cup {n}, i + 1)
    ELSE [ids |-> ids, names |-> names]

DestroyGLTextures ==
    LET r == DestroyLoop(m_textureIDs, glNames, 0)
    IN  /\ ~crashed
        /\ m_textureIDs' = r.ids
        /\ glNames' = r.names
        /\ Called("DestroyGLTextures", "")
        /\ texSubmits' = << >>
        /\ UNCHANGED <<m_pShaderManager, m_loadedTextures, m_objectMaterials,
                       glActiveTexture, glBinding, imageBuffers, uniforms,
                       crashed, loadLog>>

----------------------------------------------------------------------------
(* Material registry *)

\* tags of the materials pushed onto m_objectMaterials and passed to
\* SetShaderMaterial
MaterialTags == {"gold", "wood"}

\* diffuse colour, specular colour and shininess, in hundredths: the values
\* of goldMaterial and of woodMaterial
MaterialValues ==
    { [diffuseColor |-> <<30, 30, 20>>, specularColor |-> <<60, 50, 40>>,
       shininess |-> 2200],
      [diffuseColor |-> <<30, 20, 10>>, specularColor |-> <<10, 10, 10>>,
       shininess |-> 30] }

OBJECT_MATERIAL ==
    { [diffuseColor |-> v.diffuseColor, specularColor |-> v.specularColor,
       shininess |-> v.shininess, tag |-> t] : v \in MaterialValues, t \in MaterialTags }

\* what a default-initialised OBJECT_MATERIAL local may hold: its glm::vec3
\* and float members are indeterminate, its tag is the empty string
IndeterminateMaterials ==
    { [diffuseColor |-> <<0, 0, 0>>, specularColor |-> <<0, 0, 0>>,
       shininess |-> 0, tag |-> ""],
      [diffuseColor |-> <<77, 77, 77>>, specularColor |-> <<77, 77, 77>>,
       shininess |-> 77, tag |-> ""] }

\* m_objectMaterials.push_back(material)
DefineMaterial(material) ==
    /\ ~crashed
    /\ m_objectMaterials' = Append(m_objectMaterials, material)
    /\ Called("DefineMaterial", "")
    /\ texSubmits' = << >>
    /\ UNCHANGED <<m_pShaderManager, texVars, glVars, imageBuffers, uniforms,
                   crashed, loadLog>>

RECURSIVE ScanMaterialsToLast(_, _)
\* ScanMaterials with the bFound test left out of the loop condition: the
\* scan runs on and a later match overwrites an earlier one
ScanMaterialsToLast(tag, index) ==
    IF index < Len(m_objectMaterials)
    THEN LET later == ScanMaterialsToLast(tag, index + 1)
         IN  IF later < Len(m_objectMaterials)
             THEN later
             ELSE IF m_objectMaterials[index + 1].tag = tag
                  THEN index
                  ELSE Len(m_objectMaterials)
    ELSE Len(m_objectMaterials)

RECURSIVE ScanMaterials(_, _)
\* the while loop of FindMaterial: the first index at or after index whose tag
\* compares equal, or size(); m_objectMaterials[index] of the code is
\* m_objectMaterials[index + 1] of the sequence
ScanMaterials(tag, index) ==
    IF index < Len(m_objectMaterials)
    THEN IF m_objectMaterials[index + 1].tag = tag
         THEN index
         ELSE ScanMaterials(tag, index + 1)
    ELSE Len(m_objectMaterials)

\* the value FindMaterial returns once the scan is over
FindMaterialReturn(bFound) == TRUE

\* FindMaterial(tag, material): the returned bool and the material the
\* reference parameter holds afterwards
FindMaterial(tag, material) ==
    IF Len(m_objectMaterials) = 0
    THEN [bReturn |-> FALSE, material |-> material]
    ELSE LET index == ScanMaterials(tag, 0)
             bFound == index < Len(m_objectMaterials)
         IN  [bReturn |-> FindMaterialReturn(bFound),
              material |->
                 IF bFound
                 THEN [material EXCEPT
                         !.diffuseColor = m_objectMaterials[index + 1].diffuseColor,
                         !.specularColor = m_objectMaterials[index + 1].specularColor,
                         !.shininess = m_objectMaterials[index + 1].shininess]
                 ELSE material]

----------------------------------------------------------------------------
(* Uniform submission layer *)

\* The float arguments of SetTransformations and the entries of the matrices
\* are fixed-point numbers, in thousandths: One stands for 1.0f, and an angle
\* of 90 degrees is 90000.
One == 1000

\* a product of two fixed-point numbers, rounded to the nearest thousandth
Round(x) == (x + (One \div 2)) \div One

\* cosine and sine, to the nearest thousandth, of the angles between 0 and
\* 180 degrees that the model rotates by
CosTable ==
    0 :> 1000 @@ 2000 :> 999 @@ 4000 :> 998 @@ 6000 :> 995 @@ 8000 :> 990 @@
    9500 :> 986 @@ 10000 :> 985 @@ 12000 :> 978 @@ 18000 :> 951 @@
    20000 :> 940 @@ 22000 :> 927 @@ 28000 :> 883 @@ 32000 :> 848 @@
    38000 :> 788 @@ 48000 :> 669 @@ 90000 :> 0 @@ 180000 :> -1000
SinTable ==
    0 :> 0 @@ 2000 :> 35 @@ 4000 :> 70 @@ 6000 :> 105 @@ 8000 :> 139 @@
    9500 :> 165 @@ 10000 :> 174 @@ 12000 :> 208 @@ 18000 :> 309 @@
    20000 :> 342 @@ 22000 :> 375 @@ 28000 :> 469 @@ 32000 :> 530 @@
    38000 :> 616 @@ 48000 :> 743 @@ 90000 :> 1000 @@ 180000 :> 0

\* glm::cos and glm::sin of glm::radians(deg)
Cos(deg) ==
    LET a == deg % 360000
    IN  IF a > 180000 THEN CosTable[360000 - a] ELSE CosTable[a]
Sin(deg) ==
    LET a == deg % 360000
    IN  IF a > 180000 THEN -SinTable[360000 - a] ELSE SinTable[a]

\* 4x4 matrices, m[row][column]
Mat(r1, r2, r3, r4) == <<r1, r2, r3, r4>>

\* entry [r][c] of the product a * b
Dot(a, b, r, c) ==
    Round(a[r][1] * b[1][c] + a[r][2] * b[2][c] + a[r][3] * b[3][c] + a[r][4] * b[4][c])

MatMul(a, b) ==
    Mat(<<Dot(a, b, 1, 1), Dot(a, b, 1, 2), Dot(a, b, 1, 3), Dot(a, b, 1, 4)>>,
        <<Dot(a, b, 2, 1), Dot(a, b, 2, 2), Dot(a, b, 2, 3), Dot(a, b, 2, 4)>>,
        <<Dot(a, b, 3, 1), Dot(a, b, 3, 2), Dot(a, b, 3, 3), Dot(a, b, 3, 4)>>,
        <<Dot(a, b, 4, 1), Dot(a, b, 4, 2), Dot(a, b, 4, 3), Dot(a, b, 4, 4)>>)

\* glm::scale(v)
Scale(v) == Mat(<<v[1], 0, 0, 0>>, <<0, v[2], 0, 0>>, <<0, 0, v[3], 0>>, <<0, 0, 0, One>>)
\* glm::rotate(glm::radians(deg), axis) for the three coordinate axes
RotateX(deg) == Mat(<<One, 0, 0, 0>>, <<0, Cos(deg), -Sin(deg), 0>>,
                    <<0, Sin(deg), Cos(deg), 0>>, <<0, 0, 0, One>>)
RotateY(deg) == Mat(<<Cos(deg), 0, Sin(deg), 0>>, <<0, One, 0, 0>>,
                    <<-Sin(deg), 0, Cos(deg), 0>>, <<0, 0, 0, One>>)
RotateZ(deg) == Mat(<<Cos(deg), -Sin(deg), 0, 0>>, <<Sin(deg), Cos(deg), 0, 0>>,
                    <<0, 0, One, 0>>, <<0, 0, 0, One>>)
\* glm::translate(v)
Translate(v) == Mat(<<One, 0, 0, v[1]>>, <<0, One, 0, v[2]>>, <<0, 0, One, v[3]>>,
                    <<0, 0, 0, One>>)

\* modelView with the scale applied last
ModelViewScaleLast(scaleXYZ, XrotationDegrees, YrotationDegrees, ZrotationDegrees, positionXYZ) ==
    MatMul(Scale(scaleXYZ),
      MatMul(Translate(positionXYZ),
        MatMul(RotateZ(ZrotationDegrees),
          MatMul(RotateY(YrotationDegrees), RotateX(XrotationDegrees)))))

\* modelView = translation * rotationZ * rotationY * rotationX * scale
ModelView(scaleXYZ, XrotationDegrees, YrotationDegrees, ZrotationDegrees, positionXYZ) ==
    MatMul(Translate(positionXYZ),
      MatMul(RotateZ(ZrotationDegrees),
        MatMul(RotateY(YrotationDegrees),
          MatMul(RotateX(XrotationDegrees), Scale(scaleXYZ)))))

\* arguments of SetTransformations
Transforms ==
    { [scaleXYZ |-> <<2000, 1000, 1000>>, X |-> 0, Y |-> 0, Z |-> 90000,
       positionXYZ |-> <<1000, 0, 0>>],
      [scaleXYZ |-> <<1000, 1000, 1000>>, X |-> 90000, Y |-> 0, Z |-> 0,
       positionXYZ |-> <<0, 0, 0>>] }

\* arguments of SetShaderColor, in hundredths
Colors == { <<100, 100, 100, 35>>, <<30, 12, 8, 100>> }

\* arguments of SetTextureUVScale, in tenths
UVScales == { <<30, 20>>, <<10, 10>> }

SetTransformations(scaleXYZ, XrotationDegrees, YrotationDegrees, ZrotationDegrees, positionXYZ) ==
    LET modelView == ModelView(scaleXYZ, XrotationDegrees, YrotationDegrees,
                               ZrotationDegrees, positionXYZ)
    IN  /\ ~crashed
        /\ uniforms' = IF m_pShaderManager # "NULL"
                       THEN [uniforms EXCEPT !.model = modelView]
                       ELSE uniforms
        /\ Called("SetTransformations", "")
        /\ texSubmits' = << >>
        /\ UNCHANGED <<m_pShaderManager, texVars, m_objectMaterials, glVars,
                       imageBuffers, crashed, loadLog>>

\* SetShaderColor leaving bUseTexture as it is
SubmitColorKeepFlag(currentColor) ==
    [uniforms EXCEPT !.objectColor = currentColor]

\* the setIntValue and setVec4Value calls of SetShaderColor
SubmitColor(currentColor) ==
    [uniforms EXCEPT !.bUseTexture = 0, !.objectColor = currentColor]

SetShaderColor(redColorValue, greenColorValue, blueColorValue, alphaValue) ==
    LET currentColor == <<redColorValue, greenColorValue, blueColorValue, alphaValue>>
    IN  /\ ~crashed
        /\ uniforms' = IF m_pShaderManager # "NULL"
                       THEN SubmitColor(currentColor)
                       ELSE uniforms
        /\ Called("SetShaderColor", "")
        /\ texSubmits' = << >>
        /\ UNCHANGED <<m_pShaderManager, texVars, m_objectMaterials, glVars,
                       imageBuffers, crashed, loadLog>>

\* the last two entries of a history
LastTwo(s) == IF Len(s) > 2 THEN SubSeq(s, Len(s) - 1, Len(s)) ELSE s

\* SetShaderTexture clamping a slot that was not found to unit 0
TextureValueClamped(textureTag) ==
    IF FindTextureSlot(textureTag) < 0 THEN 0 ELSE FindTextureSlot(textureTag)

\* the value SetShaderTexture passes to setSampler2DValue
TextureValue(textureTag) == FindTextureSlot(textureTag)

SetShaderTexture(textureTag) ==
    LET textureID == TextureValue(textureTag)
    IN  /\ ~crashed
        /\ IF m_pShaderManager # "NULL"
           THEN /\ uniforms' = [uniforms EXCEPT !.bUseTexture = 1,
                                                !.objectTexture = textureID]
                /\ texSubmits' = LastTwo(Append(texSubmits, textureID))
           ELSE UNCHANGED <<uniforms, texSubmits>>
        /\ Called("SetShaderTexture", textureTag)
        /\ UNCHANGED <<m_pShaderManager, texVars, m_objectMaterials, glVars,
                       imageBuffers, crashed, loadLog>>

SetTextureUVScale(u, v) ==
    /\ ~crashed
    /\ uniforms' = IF m_pShaderManager # "NULL"
                   THEN [uniforms EXCEPT !.UVscale = <<u, v>>]
                   ELSE uniforms
    /\ Called("SetTextureUVScale", "")
    /\ texSubmits' = << >>
    /\ UNCHANGED <<m_pShaderManager, texVars, m_objectMaterials, glVars,
                   imageBuffers, crashed, loadLog>>

\* the three setVec3Value/setFloatValue calls of SetShaderMaterial
SubmitMaterial(material) ==
    [uniforms EXCEPT !.diffuseColor = material.diffuseColor,
                     !.specularColor = material.specularColor,
                     !.shininess = material.shininess]

SetShaderMaterial(materialTag) ==
    /\ ~crashed
    /\ IF Len(m_objectMaterials) > 0
       THEN \E material \in IndeterminateMaterials :
              LET r == FindMaterial(materialTag, material)
              IN  IF r.bReturn = TRUE
                  THEN IF m_pShaderManager # "NULL"
                       THEN /\ uniforms' = SubmitMaterial(r.material)
                            /\ UNCHANGED crashed
                       ELSE \* m_pShaderManager-> through a NULL pointer: the
                            \* process dies, or the calls go through
                            \/ /\ crashed' = TRUE
                               /\ UNCHANGED uniforms
                            \/ /\ uniforms' = SubmitMaterial(r.material)
                               /\ UNCHANGED crashed
                  ELSE UNCHANGED <<uniforms, crashed>>
       ELSE UNCHANGED <<uniforms, crashed>>
    /\ Called("SetShaderMaterial", materialTag)
    /\ texSubmits' = << >>
    /\ UNCHANGED <<m_pShaderManager, texVars, m_objectMaterials, glVars,
                   imageBuffers, loadLog>>

\* the light uniforms SetupSceneLights submits, in thousandths (a bool as
\* <<0>> or <<1>>)
SceneLights ==
    "directionalLight.direction" :> <<-50, -300, -100>> @@
    "directionalLight.ambient" :> <<50, 50, 50>> @@
    "directionalLight.diffuse" :> <<600, 600, 600>> @@
    "directionalLight.specular" :> <<0, 0, 0>> @@
    "directionalLight.bActive" :> <<1>> @@
    "pointLights[0].position" :> <<-4000, 8000, 0>> @@
    "pointLights[0].ambient" :> <<50, 50, 50>> @@
    "pointLights[0].diffuse" :> <<300, 300, 300>> @@
    "pointLights[0].specular" :> <<100, 100, 100>> @@
    "pointLights[0].bActive" :> <<1>> @@
    "pointLights[1].position" :> <<4000, 8000, 0>> @@
    "pointLights[1].ambient" :> <<50, 50, 50>> @@
    "pointLights[1].diffuse" :> <<300, 300, 300>> @@
    "pointLights[1].specular" :> <<100, 100, 100>> @@
    "pointLights[1].bActive" :> <<1>> @@
    "pointLights[2].position" :> <<3800, 5500, 4000>> @@
    "pointLights[2].ambient" :> <<60, 30, 0>> @@
    "pointLights[2].diffuse" :> <<950, 500, 150>> @@
    "pointLights[2].specular" :> <<1000, 900, 800>> @@
    "pointLights[2].bActive" :> <<1>> @@
    "pointLights[3].position" :> <<3800, 3500, 4000>> @@
    "pointLights[3].ambient" :> <<50, 50, 50>> @@
    "pointLights[3].diffuse" :> <<200, 200, 200>> @@
    "pointLights[3].specular" :> <<800, 800, 800>> @@
    "pointLights[3].bActive" :> <<1>> @@
    "pointLights[4].position" :> <<-3200, 6000, -4000>> @@
    "pointLights[4].ambient" :> <<50, 50, 50>> @@
    "pointLights[4].diffuse" :> <<900, 900, 900>> @@
    "pointLights[4].specular" :> <<100, 100, 100>> @@
    "pointLights[4].bActive" :> <<1>> @@
    "spotLight.ambient" :> <<800, 800, 800>> @@
    "spotLight.diffuse" :> <<1000, 1000, 1000>> @@
    "spotLight.specular" :> <<700, 700, 700>> @@
    "spotLight.constant" :> <<1000>> @@
    "spotLight.linear" :> <<90>> @@
    "spotLight.quadratic" :> <<32>> @@
    "spotLight.cutOff" :> <<737>> @@
    "spotLight.outerCutOff" :> <<669>> @@
    "spotLight.bActive" :> <<1>>

SetupSceneLights ==
    /\ ~crashed
    /\ IF m_pShaderManager # "NULL"
       THEN /\ uniforms' = [uniforms EXCEPT !.bUseLighting = 1,
                                            !.lights = SceneLights]
            /\ UNCHANGED crashed
       ELSE \* m_pShaderManager-> through a NULL pointer: the process dies, or
            \* the calls go through
            \E deref \in {"crash", "through"} :
              /\ crashed' = (deref = "crash")
              /\ uniforms' = IF deref = "crash"
                             THEN uniforms
                             ELSE [uniforms EXCEPT !.bUseLighting = 1,
                                                   !.lights = SceneLights]
    /\ Called("SetupSceneLights", "")
    /\ texSubmits' = << >>
    /\ UNCHANGED <<m_pShaderManager, texVars, m_objectMaterials, glVars,
                   imageBuffers, loadLog>>

\* a call of m_basicMeshes (a mesh is loaded or drawn) or of glEnable or
\* glBlendFunc: it changes nothing the class reads
OutsideCall(op) ==
    /\ ~crashed
    /\ Called(op, "")
    /\ texSubmits' = << >>
    /\ UNCHANGED <<m_pShaderManager, texVars, m_objectMaterials, glVars,
                   imageBuffers, uniforms, crashed, loadLog>>

----------------------------------------------------------------------------
(* The scene: the calls PrepareScene and RenderScene make, in order *)

PushBackCall(material) ==
    [op |-> "DefineMaterial", tag |-> material.tag, material |-> material]
SetupSceneLightsCall == [op |-> "SetupSceneLights", tag |-> ""]
CreateGLTextureCall(filename, tag) ==
    [op |-> "CreateGLTexture", tag |-> tag, filename |-> filename]
BindGLTexturesCall == [op |-> "BindGLTextures", tag |-> ""]
LoadMeshCall(mesh) == [op |-> "LoadMesh", tag |-> "", mesh |-> mesh]
GLCall(function) == [op |-> function, tag |-> ""]
SetTransformationsCall(scaleXYZ, XrotationDegrees, YrotationDegrees, ZrotationDegrees, positionXYZ) ==
    [op |-> "SetTransformations", tag |-> "", scaleXYZ |-> scaleXYZ,
     X |-> XrotationDegrees, Y |-> YrotationDegrees, Z |-> ZrotationDegrees,
     positionXYZ |-> positionXYZ]
SetShaderColorCall(redColorValue, greenColorValue, blueColorValue, alphaValue) ==
    [op |-> "SetShaderColor", tag |-> "",
     color |-> <<redColorValue, greenColorValue, blueColorValue, alphaValue>>]
SetShaderTextureCall(textureTag) == [op |-> "SetShaderTexture", tag |-> textureTag]
SetTextureUVScaleCall(u, v) == [op |-> "SetTextureUVScale", tag |-> "", u |-> u, v |-> v]
SetShaderMaterialCall(materialTag) == [op |-> "SetShaderMaterial", tag |-> materialTag]
DrawCall(mesh) == [op |-> "Draw", tag |-> "", mesh |-> mesh]

\* the materials of DefineObjectMaterials, in hundredths
goldMaterial ==
    [diffuseColor |-> <<30, 30, 20>>, specularColor |-> <<60, 50, 40>>,
     shininess |-> 2200, tag |-> "gold"]
cementMaterial ==
    [diffuseColor |-> <<50, 50, 50>>, specularColor |-> <<40, 40, 40>>,
     shininess |-> 50, tag |-> "cement"]
woodMaterial ==
    [diffuseColor |-> <<30, 20, 10>>, specularColor |-> <<10, 10, 10>>,
     shininess |-> 30, tag |-> "wood"]
tileMaterial ==
    [diffuseColor |-> <<30, 20, 10>>, specularColor |-> <<40, 50, 60>>,
     shininess |-> 2500, tag |-> "tile"]
glassMaterial ==
    [diffuseColor |-> <<30, 30, 30>>, specularColor |-> <<60, 60, 60>>,
     shininess |-> 8500, tag |-> "glass"]
clayMaterial ==
    [diffuseColor |-> <<40, 40, 50>>, specularColor |-> <<20, 20, 40>>,
     shininess |-> 50, tag |-> "clay"]
plasticClear ==
    [diffuseColor |-> <<95, 95, 95>>, specularColor |-> <<75, 75, 75>>,
     shininess |-> 9600, tag |-> "plasticClear"]

\* DefineObjectMaterials without the clay material
DefineObjectMaterialsNoClay ==
    << PushBackCall(goldMaterial), PushBackCall(cementMaterial),
       PushBackCall(woodMaterial), PushBackCall(tileMaterial),
       PushBackCall(glassMaterial), PushBackCall(plasticClear) >>

DefineObjectMaterials ==
    << PushBackCall(goldMaterial), PushBackCall(cementMaterial),
       PushBackCall(woodMaterial), PushBackCall(tileMaterial),
       PushBackCall(glassMaterial), PushBackCall(clayMaterial),
       PushBackCall(plasticClear) >>

\* LoadSceneTextures binding before the last two textures are loaded
LoadSceneTexturesBindEarly ==
    << CreateGLTextureCall("textures/Onyx011_2K-JPG_Color.jpg", "onyx"),
       CreateGLTextureCall("textures/Ice002_2K-JPG_Color.jpg", "ice"),
       CreateGLTextureCall("textures/Wood066_2K-JPG_Color.jpg", "wood"),
       CreateGLTextureCall("textures/Ground035_4K-JPG_Color.jpg", "ground"),
       CreateGLTextureCall("textures/Concrete044D_2K-JPG_Color.jpg", "concrete"),
       CreateGLTextureCall("textures/Metal049A_2K-JPG_Color.jpg", "metal"),
       BindGLTexturesCall,
       CreateGLTextureCall("textures/Wood032_2K-JPG_Color.jpg", "wood2"),
       CreateGLTextureCall("textures/meat_color_2k.jpg", "meat") >>

LoadSceneTextures ==
    << CreateGLTextureCall("textures/Onyx011_2K-JPG_Color.jpg", "onyx"),
       CreateGLTextureCall("textures/Ice002_2K-JPG_Color.jpg", "ice"),
       CreateGLTextureCall("textures/Wood066_2K-JPG_Color.jpg", "wood"),
       CreateGLTextureCall("textures/Ground035_4K-JPG_Color.jpg", "ground"),
       CreateGLTextureCall("textures/Concrete044D_2K-JPG_Color.jpg", "concrete"),
       CreateGLTextureCall("textures/Metal049A_2K-JPG_Color.jpg", "metal"),
       CreateGLTextureCall("textures/Wood032_2K-JPG_Color.jpg", "wood2"),
       CreateGLTextureCall("textures/meat_color_2k.jpg", "meat"),
       BindGLTexturesCall >>

PrepareScene ==
    DefineObjectMaterials \o << SetupSceneLightsCall >> \o LoadSceneTextures
    \o << LoadMeshCall("LoadPlaneMesh"), LoadMeshCall("LoadBoxMesh"),
          LoadMeshCall("LoadPyramid4Mesh"), LoadMeshCall("LoadCylinderMesh"),
          LoadMeshCall("LoadTaperedCylinderMesh"), LoadMeshCall("LoadTorusMesh"),
          LoadMeshCall("LoadSphereMesh"), GLCall("glEnable"), GLCall("glBlendFunc") >>

\* The objects of RenderScene. The arguments of SetTransformations are in
\* thousandths, those of SetShaderColor in hundredths and those of
\* SetTextureUVScale in tenths.

\* CounterTop with the texture set before the transformations
CounterTopTextureFirst ==
    << SetShaderTextureCall("onyx"),
       SetTransformationsCall(<<24000, 1000, 14000>>, 0, 0, 0, <<0, 0, 0>>),
       SetTextureUVScaleCall(30, 20),
       SetShaderMaterialCall("tile"),
       DrawCall("DrawPlaneMesh") >>

\* lines 605-629
CounterTop ==
    << SetTransformationsCall(<<24000, 1000, 14000>>, 0, 0, 0, <<0, 0, 0>>),
       SetShaderTextureCall("onyx"),
       SetTextureUVScaleCall(30, 20),
       SetShaderMaterialCall("tile"),
       DrawCall("DrawPlaneMesh") >>

\* lines 633-658
CuttingBoard ==
    << SetTransformationsCall(<<8600, 250, 5000>>, 0, 0, 0, <<-500, 125, 800>>),
       SetShaderTextureCall("wood"),
       SetTextureUVScaleCall(16, 10),
       SetShaderMaterialCall("wood"),
       DrawCall("DrawBoxMesh") >>

\* lines 662-686
KnifeBlade ==
    << SetTransformationsCall(<<50, 5000, 350>>, -10000, 0, 90000, <<1600, 330, 1100>>),
       SetShaderTextureCall("metal"),
       SetTextureUVScaleCall(20, 10),
       SetShaderMaterialCall("tile"),
       DrawCall("DrawPyramid4Mesh") >>

\* lines 691-716
KnifeHandle ==
    << SetTransformationsCall(<<200, 1100, 200>>, -10000, 0, 90000, <<5150, 300, 1650>>),
       SetShaderTextureCall("wood2"),
       SetTextureUVScaleCall(10, 10),
       SetShaderMaterialCall("wood"),
       DrawCall("DrawTaperedCylinderMesh") >>

\* lines 720-739
MeatPyramidA ==
    << SetTransformationsCall(<<1600, 1100, 1200>>, -6000, 18000, 4000, <<-2250, 2000, 600>>),
       SetShaderTextureCall("meat"),
       SetTextureUVScaleCall(15, 12),
       SetShaderMaterialCall("clay"),
       DrawCall("DrawPyramid4Mesh") >>

\* lines 743-761
MeatPyramidB ==
    << SetTransformationsCall(<<1200, 900, 1000>>, 8000, -22000, -10000, <<-1950, 1450, 1250>>),
       SetShaderTextureCall("meat"),
       SetTextureUVScaleCall(15, 12),
       SetShaderMaterialCall("clay"),
       DrawCall("DrawPyramid4Mesh") >>

\* lines 765-783
MeatPyramidC ==
    << SetTransformationsCall(<<2750, 2750, 2750>>, -4000, 10000, 2000, <<-2300, 1450, 700>>),
       SetShaderTextureCall("meat"),
       SetTextureUVScaleCall(15, 12),
       SetShaderMaterialCall("clay"),
       DrawCall("DrawPyramid4Mesh") >>

\* lines 787-805
MeatPyramidD ==
    << SetTransformationsCall(<<2100, 850, 1950>>, 6000, 28000, -8000, <<-2950, 600, 350>>),
       SetShaderTextureCall("meat"),
       SetTextureUVScaleCall(15, 12),
       SetShaderMaterialCall("clay"),
       DrawCall("DrawPyramid4Mesh") >>

\* lines 809-826
MeatPyramidE ==
    << SetTransformationsCall(<<1950, 750, 1900>>, -38000, -48000, 12000, <<-1700, 1100, 350>>),
       SetShaderTextureCall("meat"),
       SetTextureUVScaleCall(15, 12),
       SetShaderMaterialCall("clay"),
       DrawCall("DrawPyramid4Mesh") >>

\* lines 830-853
Marinade ==
    << SetTransformationsCall(<<1000, 2650, 1000>>, 180000, 0, 0, <<5200, 2750, -1000>>),
       SetShaderColorCall(30, 12, 8, 100),
       SetShaderMaterialCall("tile"),
       DrawCall("DrawCylinderMesh") >>

\* lines 857-875
PorkPieceA ==
    << SetTransformationsCall(<<340, 260, 280>>, 12000, 18000, -8000, <<5180, 2750, -1060>>),
       SetShaderTextureCall("meat"),
       SetTextureUVScaleCall(15, 12),
       SetShaderMaterialCall("clay"),
       DrawCall("DrawPyramid4Mesh") >>

\* lines 879-897
PorkPieceB ==
    << SetTransformationsCall(<<280, 240, 260>>, -6000, 32000, 10000, <<5320, 2750, -880>>),
       SetShaderTextureCall("meat"),
       SetTextureUVScaleCall(15, 12),
       SetShaderMaterialCall("clay"),
       DrawCall("DrawPyramid4Mesh") >>

\* lines 901-919
PorkPieceC ==
    << SetTransformationsCall(<<540, 500, 520>>, 8000, -20000, -12000, <<5060, 2750, -1140>>),
       SetShaderTextureCall("meat"),
       SetTextureUVScaleCall(15, 12),
       SetShaderMaterialCall("clay"),
       DrawCall("DrawPyramid4Mesh") >>

\* lines 923-941
PorkPieceD ==
    << SetTransformationsCall(<<350, 270, 290>>, 12000, 18000, -8000, <<5180, 2750, -1360>>),
       SetShaderTextureCall("meat"),
       SetTextureUVScaleCall(15, 12),
       SetShaderMaterialCall("clay"),
       DrawCall("DrawPyramid4Mesh") >>

\* lines 945-963
PorkPieceE ==
    << SetTransformationsCall(<<480, 440, 460>>, -6000, 32000, 10000, <<5320, 2750, -680>>),
       SetShaderTextureCall("meat"),
       SetTextureUVScaleCall(15, 12),
       SetShaderMaterialCall("clay"),
       DrawCall("DrawPyramid4Mesh") >>

\* lines 967-985
PorkPieceF ==
    << SetTransformationsCall(<<340, 300, 320>>, 8000, -20000, -12000, <<5060, 2750, -1840>>),
       SetShaderTextureCall("meat"),
       SetTextureUVScaleCall(15, 12),
       SetShaderMaterialCall("clay"),
       DrawCall("DrawPyramid4Mesh") >>

\* lines 989-1012
CupBody ==
    << SetTransformationsCall(<<1050, 3000, 1050>>, 180000, 0, 0, <<5200, 3000, -1000>>),
       SetShaderColorCall(100, 100, 100, 35),
       SetShaderMaterialCall("glass"),
       DrawCall("DrawCylinderMesh") >>

\* lines 1016-1033
Lid ==
    << SetTransformationsCall(<<1100, 100, 1100>>, 0, 0, 0, <<6800, 50, 700>>),
       SetShaderColorCall(100, 100, 100, 35),
       SetShaderMaterialCall("plasticClear"),
       DrawCall("DrawCylinderMesh") >>

\* lines 1037-1054
TweezersLeft ==
    << SetTransformationsCall(<<1800, 50, 20>>, 0, 9500, 2000, <<1460, 300, 1855>>),
       SetShaderTextureCall("metal"),
       SetTextureUVScaleCall(20, 10),
       SetShaderMaterialCall("glass"),
       DrawCall("DrawBoxMesh") >>

\* lines 1058-1075
TweezersRight ==
    << SetTransformationsCall(<<1800, 50, 20>>, 0, 12000, 2000, <<1480, 300, 1915>>),
       SetShaderTextureCall("metal"),
       SetTextureUVScaleCall(20, 10),
       SetShaderMaterialCall("glass"),
       DrawCall("DrawBoxMesh") >>

RenderScene ==
    CounterTop \o CuttingBoard \o KnifeBlade \o KnifeHandle \o
    MeatPyramidA \o MeatPyramidB \o MeatPyramidC \o MeatPyramidD \o
    MeatPyramidE \o Marinade \o PorkPieceA \o PorkPieceB \o PorkPieceC \o
    PorkPieceD \o PorkPieceE \o PorkPieceF \o CupBody \o Lid \o
    TweezersLeft \o TweezersRight

\* PrepareScene is called once, and RenderScene after it once for each frame
Program == PrepareScene \o RenderScene

\* the call after the i-th of Program
NextCall(i) == IF i = Len(Program) THEN Len(PrepareScene) + 1 ELSE i + 1

\* the image files of LoadSceneTextures are not part of the program: each is
\* a file of one of the kinds in Files, and at most MaxFailedLoads of them are
\* of a kind that does not load
FailedLoads == Cardinality({i \in DOMAIN loadLog : ~loadLog[i].ok})
SceneFileLike(f) == stbi_load(f) \in {3, 4} \/ FailedLoads < MaxFailedLoads

\* objectCalls and textureCalls after the call c
ObjectCallsAfter(c) ==
    IF objectCalls # << >> /\ objectCalls[Len(objectCalls)].op = "Draw"
    THEN << [op |-> c.op, tag |-> c.tag] >>
    ELSE Append(objectCalls, [op |-> c.op, tag |-> c.tag])
TextureCallsAfter(c) ==
    IF c.op \in {"CreateGLTexture", "BindGLTextures"}
    THEN Append(textureCalls, c.op)
    ELSE textureCalls

\* the next call of PrepareScene
PrepareSceneStep ==
    /\ pc <= Len(PrepareScene)
    /\ LET c == Program[pc]
       IN  /\ \/ c.op = "DefineMaterial" /\ DefineMaterial(c.material)
              \/ c.op = "SetupSceneLights" /\ SetupSceneLights
              \/ /\ c.op = "CreateGLTexture"
                 /\ \E f \in Files : SceneFileLike(f) /\ CreateGLTexture(f, c.tag)
              \/ c.op = "BindGLTextures" /\ BindGLTextures
              \/ c.op \in {"LoadMesh", "glEnable", "glBlendFunc"} /\ OutsideCall(c.op)
           /\ textureCalls' = TextureCallsAfter(c)
    /\ pc' = NextCall(pc)
    /\ UNCHANGED objectCalls

\* the next call of RenderScene
RenderSceneStep ==
    /\ pc > Len(PrepareScene)
    /\ LET c == Program[pc]
       IN  /\ \/ /\ c.op = "SetTransformations"
                 /\ SetTransformations(c.scaleXYZ, c.X, c.Y, c.Z, c.positionXYZ)
              \/ /\ c.op = "SetShaderColor"
                 /\ SetShaderColor(c.color[1], c.color[2], c.color[3], c.color[4])
              \/ c.op = "SetShaderTexture" /\ SetShaderTexture(c.tag)
              \/ c.op = "SetTextureUVScale" /\ SetTextureUVScale(c.u, c.v)
              \/ c.op = "SetShaderMaterial" /\ SetShaderMaterial(c.tag)
              \/ c.op = "Draw" /\ OutsideCall(c.op)
           /\ objectCalls' = ObjectCallsAfter(c)
           /\ textureCalls' = TextureCallsAfter(c)
    /\ pc' = NextCall(pc)

----------------------------------------------------------------------------
(* Initial state: a constructed SceneManager on a fresh OpenGL context *)

\* the uniform values of a freshly linked shader program are all zero
ZeroMatrix == Mat(<<0, 0, 0, 0>>, <<0, 0, 0, 0>>, <<0, 0, 0, 0>>, <<0, 0, 0, 0>>)

\* the uniform values before any submission
InitialUniforms ==
    [model |-> ZeroMatrix, objectColor |-> <<0, 0, 0, 0>>, objectTexture |-> 0,
     bUseTexture |-> 0, UVscale |-> <<0, 0>>, diffuseColor |-> <<0, 0, 0>>,
     specularColor |-> <<0, 0, 0>>, shininess |-> 0, bUseLighting |-> 0,
     lights |-> [name \in DOMAIN SceneLights |-> <<0>>]]

Init ==
    /\ m_pShaderManager \in {"NULL", "shader"}
    \* entries at and after m_loadedTextures are never read
    /\ m_textureIDs = [i \in TextureUnits |-> [ID |-> 0, tag |-> ""]]
    /\ m_loadedTextures = 0
    /\ m_objectMaterials = << >>
    /\ glNames = {}
    /\ glActiveTexture = 0
    /\ glBinding = [u \in TextureUnits |-> 0]
    /\ imageBuffers = 0
    /\ uniforms = InitialUniforms
    /\ crashed = FALSE
    /\ loadLog = << >>
    /\ lastCall = [op |-> "", tag |-> ""]
    /\ texSubmits = << >>
    /\ pc = 1
    /\ objectCalls = << >>
    /\ textureCalls = << >>

\* a SceneManager constructed with a NULL shader manager
InitNoShader == Init /\ m_pShaderManager = "NULL"

\* a SceneManager constructed with a shader manager
InitShader == Init /\ m_pShaderManager # "NULL"

\* The operations as a caller of the class other than PrepareScene and
\* RenderScene calls them: in any order, within the bounds of the model

Load(f, t) ==
    /\ Len(loadLog) < MaxLoads
    /\ Cardinality(glNames) < MaxNames
    /\ CreateGLTexture(f, t)
    /\ UNCHANGED sceneVars

Bind == BindGLTextures /\ UNCHANGED sceneVars

Destroy ==
    /\ Cardinality(glNames) + m_loadedTextures <= MaxNames
    /\ DestroyGLTextures
    /\ UNCHANGED sceneVars

Define(m) ==
    /\ Len(m_objectMaterials) < MaxMaterials
    /\ DefineMaterial(m)
    /\ UNCHANGED sceneVars

NextTexture ==
    \/ \E f \in Files, t \in TextureTags : Load(f, t)
    \/ Bind
    \/ Destroy

NextMaterial ==
    \/ \E m \in OBJECT_MATERIAL : Define(m)
    \/ \E t \in MaterialTags : SetShaderMaterial(t) /\ UNCHANGED sceneVars

NextSubmit ==
    \/ \E f \in Files, t \in TextureTags : Load(f, t)
    \/ \E t \in TextureTags : SetShaderTexture(t) /\ UNCHANGED sceneVars

NextUniforms ==
    \/ \E t \in Transforms :
         /\ SetTransformations(t.scaleXYZ, t.X, t.Y, t.Z, t.positionXYZ)
         /\ UNCHANGED sceneVars
    \/ \E c \in Colors : SetShaderColor(c[1], c[2], c[3], c[4]) /\ UNCHANGED sceneVars
    \/ \E t \in TextureTags : SetShaderTexture(t) /\ UNCHANGED sceneVars
    \/ \E s \in UVScales : SetTextureUVScale(s[1], s[2]) /\ UNCHANGED sceneVars
    \/ \E t \in MaterialTags : SetShaderMaterial(t) /\ UNCHANGED sceneVars

NextNoShader ==
    \/ \E f \in Files, t \in TextureTags : Load(f, t)
    \/ \E m \in OBJECT_MATERIAL : Define(m)
    \/ NextUniforms

\* PrepareScene, and after it the submission operations in any order
NextPrepared ==
    \/ PrepareSceneStep
    \/ pc > Len(PrepareScene) /\ NextUniforms

\* PrepareScene, and after it RenderScene frame after frame
NextScene ==
    \/ PrepareSceneStep
    \/ RenderSceneStep

\* loads of one image under one tag until the array is full and once more,
\* and BindGLTextures
NextCapacity ==
    \/ /\ m_loadedTextures <= MaxTextures
       /\ CreateGLTexture("rgb.jpg", "onyx")
       /\ UNCHANGED sceneVars
    \/ m_loadedTextures <= MaxTextures /\ Bind

Next ==
    \/ NextTexture
    \/ \E m \in OBJECT_MATERIAL : Define(m)
    \/ NextUniforms
    \/ NextScene

\* every operation of the class, in any order
Spec == Init /\ [][Next]_vars

\* the texture registry and the OpenGL context
SpecTexture == Init /\ [][NextTexture]_vars

\* the material registry and its submission
SpecMaterial == Init /\ [][NextMaterial]_vars

\* the texture registry and its submission
SpecSubmit == Init /\ [][NextSubmit]_vars

\* both registries and the uniform submission layer of a SceneManager
\* constructed without a shader manager
SpecNoShader == InitNoShader /\ [][NextNoShader]_vars

\* the uniform submission layer of a SceneManager with a shader manager, on
\* the registries PrepareScene leaves
SpecUniforms == InitShader /\ [][NextPrepared]_vars

\* the scene: PrepareScene and the frames of RenderScene
SpecScene == Init /\ [][NextScene]_vars

\* the texture registry filled to its capacity
SpecCapacity == Init /\ [][NextCapacity]_vars

----------------------------------------------------------------------------
(* Properties of the texture registry *)

\* the tags of the CreateGLTexture calls so far are pairwise distinct
DistinctLoadTags ==
    \A i, j \in DOMAIN loadLog : i # j => loadLog[i].tag # loadLog[j].tag

\* number of successful CreateGLTexture calls before the i-th call
SuccessesBefore(i) == Cardinality({j \in 1 .. (i - 1) : loadLog[j].ok})

\* the tags CreateGLTexture registered, and the names of failed and of
\* successful loads
LoadedTags == {loadLog[i].tag : i \in {j \in DOMAIN loadLog : loadLog[j].ok}}
FailedNames == {loadLog[i].ID : i \in {j \in DOMAIN loadLog : ~loadLog[j].ok}} \ {0}
LoadedNames == {loadLog[i].ID : i \in {j \in DOMAIN loadLog : loadLog[j].ok}}

\* C1: when the load calls so far had pairwise distinct tags, FindTextureSlot
\* of every successfully loaded tag is the number of successful loads before
\* that load; loadLog only grows, so the slot of a tag is the same in every
\* later state, whatever loads, binds or destroys follow.
C1_SlotIsLoadOrder ==
    DistinctLoadTags =>
        \A i \in DOMAIN loadLog :
            loadLog[i].ok => FindTextureSlot(loadLog[i].tag) = SuccessesBefore(i)

\* a successful load, then a failed one, then a successful one whose tag has
\* slot 1
C1_Witness ==
    /\ Len(loadLog) = 3
    /\ DistinctLoadTags
    /\ loadLog[1].ok /\ ~loadLog[2].ok /\ loadLog[3].ok
    /\ FindTextureSlot(loadLog[1].tag) = 0
    /\ FindTextureSlot(loadLog[3].tag) = 1

\* C2: when BindGLTextures has run, texture unit i < m_loadedTextures holds
\* the name allocated by the i-th successful load and every other unit holds
\* no texture (so none holds a name of a failed load).
C2_BindAllBindsLoadedInOrder ==
    lastCall.op = "BindGLTextures" =>
        \A u \in TextureUnits :
            glBinding[u] =
                IF \E i \in DOMAIN loadLog : loadLog[i].ok /\ SuccessesBefore(i) = u
                THEN LET i == CHOOSE i \in DOMAIN loadLog :
                                  loadLog[i].ok /\ SuccessesBefore(i) = u
                     IN  loadLog[i].ID
                ELSE 0

\* C3: a CreateGLTexture call that returns false (no image, or an image whose
\* channel count is neither 3 nor 4) leaves m_loadedTextures and every
\* registered (tag, ID) pair as they were.
C3_FailedLoadKeepsRegistry ==
    [][(loadLog' # loadLog /\ ~loadLog'[Len(loadLog')].ok) =>
          (m_loadedTextures' = m_loadedTextures /\ Registry' = Registry)]_vars

\* a successful load, then a load with no image, then a load with an
\* unsupported channel count, and the registry still holds the one entry
C3_Witness ==
    /\ Len(loadLog) = 3
    /\ loadLog[1].ok
    /\ ~loadLog[2].ok /\ loadLog[2].ID = 0
    /\ ~loadLog[3].ok /\ loadLog[3].ID # 0
    /\ m_loadedTextures = 1
    /\ Registry[0] = [ID |-> loadLog[1].ID, tag |-> loadLog[1].tag]

\* C4: FindTextureSlot of a tag that no successful load registered is -1.
C4_UnloadedTagNotFound ==
    \A tag \in TextureTags : tag \notin LoadedTags => FindTextureSlot(tag) = -1

\* the registry holds entries, and a tag whose only load failed is not found
C4_Witness ==
    /\ m_loadedTextures = 2
    /\ \E i \in DOMAIN loadLog :
          /\ ~loadLog[i].ok
          /\ loadLog[i].tag \notin LoadedTags
          /\ FindTextureSlot(loadLog[i].tag) = -1

\* C9: when DestroyGLTextures has run, no name that a successful load
\* allocated is still in use, and no name was allocated besides those of the
\* load calls.
C9_ReleaseAllReleases ==
    lastCall.op = "DestroyGLTextures" =>
        /\ LoadedNames \cap glNames = {}
        /\ glNames \subseteq (LoadedNames \cup FailedNames)

----------------------------------------------------------------------------
(* Properties of the material registry *)

\* the indices (from 0) of the materials in m_objectMaterials tagged tag
TaggedIndices(tag) ==
    {i \in 0 .. (Len(m_objectMaterials) - 1) : m_objectMaterials[i + 1].tag = tag}

\* C5: FindMaterial returns false when m_objectMaterials is empty and when
\* no material in it has the tag.
C5_FindMaterialFailsOnNoMatch ==
    \A tag \in MaterialTags, material \in IndeterminateMaterials :
        TaggedIndices(tag) = {} => FindMaterial(tag, material).bReturn = FALSE

\* C6: for a tag some material in m_objectMaterials carries, FindMaterial
\* returns true and leaves in its reference parameter the diffuse colour,
\* specular colour and shininess of the material at the least such index.
C6_FindMaterialFirstDefined ==
    \A tag \in MaterialTags, material \in IndeterminateMaterials :
        TaggedIndices(tag) # {} =>
            LET first == CHOOSE i \in TaggedIndices(tag) :
                             \A j \in TaggedIndices(tag) : i <= j
                r == FindMaterial(tag, material)
            IN  /\ r.bReturn = TRUE
                /\ r.material.diffuseColor = m_objectMaterials[first + 1].diffuseColor
                /\ r.material.specularColor = m_objectMaterials[first + 1].specularColor
                /\ r.material.shininess = m_objectMaterials[first + 1].shininess

\* two materials with one tag and different values, and the first is found
C6_Witness ==
    /\ Len(m_objectMaterials) = 2
    /\ m_objectMaterials[1].tag = m_objectMaterials[2].tag
    /\ m_objectMaterials[1].shininess # m_objectMaterials[2].shininess
    /\ \E material \in IndeterminateMaterials :
          FindMaterial(m_objectMaterials[1].tag, material).material.shininess
              = m_objectMaterials[1].shininess

\* C7: a call of SetShaderMaterial with a tag that no material in
\* m_objectMaterials carries leaves every uniform as it was.
C7_UnknownMaterialSubmitsNothing ==
    [][(lastCall'.op = "SetShaderMaterial" /\ TaggedIndices(lastCall'.tag) = {})
          => uniforms' = uniforms]_vars

----------------------------------------------------------------------------
(* Properties of the uniform submission layer *)

\* the tags of the registered textures
RegisteredTags == {Registry[i].tag : i \in DOMAIN Registry}

\* C8: with a shader manager, a call of SetShaderTexture does not end the
\* process, sets bUseTexture, leaves both registries as they were, and sets
\* objectTexture to -1 for a tag that is not registered and to the index of
\* the tag's (first) entry for a registered tag, whatever was submitted before.
C8_UnregisteredTextureContained ==
    [][(lastCall'.op = "SetShaderTexture" /\ m_pShaderManager # "NULL") =>
          /\ ~crashed'
          /\ uniforms'.bUseTexture = 1
          /\ IF lastCall'.tag \in RegisteredTags
             THEN /\ uniforms'.objectTexture \in DOMAIN Registry
                  /\ Registry[uniforms'.objectTexture].tag = lastCall'.tag
                  /\ \A i \in DOMAIN Registry :
                        Registry[i].tag = lastCall'.tag => uniforms'.objectTexture <= i
             ELSE uniforms'.objectTexture = -1
          /\ Registry' = Registry
          /\ m_loadedTextures' = m_loadedTextures
          /\ m_objectMaterials' = m_objectMaterials]_vars

\* SetShaderTexture submitted -1 for an unregistered tag and the call right
\* after it submitted slot 1 for the tag registered second
C8_Witness ==
    /\ m_pShaderManager # "NULL"
    /\ lastCall.op = "SetShaderTexture"
    /\ texSubmits = <<-1, 1>>
    /\ m_loadedTextures = 2
    /\ Registry[1].tag = lastCall.tag
    /\ uniforms.objectTexture = 1
    /\ uniforms.bUseTexture = 1

\* C10: with m_pShaderManager NULL no operation submits a uniform and none
\* ends the process.
C10_NullShaderSubmitsNothing ==
    m_pShaderManager = "NULL" => (~crashed /\ uniforms = InitialUniforms)

\* C11: with a shader manager set, a call of SetShaderTexture leaves
\* bUseTexture true and a call of SetShaderColor leaves it false, and every
\* other operation, SetTransformations, SetTextureUVScale and
\* SetShaderMaterial among them, leaves bUseTexture, objectColor and
\* objectTexture as they were: bUseTexture is true exactly when the last call
\* among SetShaderColor and SetShaderTexture was SetShaderTexture.
C11_UseTextureFollowsLastAppearance ==
    [][m_pShaderManager # "NULL" =>
          /\ lastCall'.op = "SetShaderTexture" => uniforms'.bUseTexture = 1
          /\ lastCall'.op = "SetShaderColor" => uniforms'.bUseTexture = 0
          /\ lastCall'.op \notin {"SetShaderTexture", "SetShaderColor"} =>
                /\ uniforms'.bUseTexture = uniforms.bUseTexture
                /\ uniforms'.objectColor = uniforms.objectColor
                /\ uniforms'.objectTexture = uniforms.objectTexture]_vars

\* SetShaderColor was called, SetShaderTexture for the texture in slot 2
\* after it, and then SetTransformations, SetTextureUVScale and, last,
\* SetShaderMaterial, which submitted the wood material: the flag is still
\* true, and the colour and the slot are still the submitted ones
C11_Witness ==
    /\ m_pShaderManager # "NULL"
    /\ lastCall = [op |-> "SetShaderMaterial", tag |-> "wood"]
    /\ uniforms.shininess = woodMaterial.shininess
    /\ uniforms.model # ZeroMatrix
    /\ uniforms.UVscale # <<0, 0>>
    /\ uniforms.bUseTexture = 1
    /\ uniforms.objectTexture = 2
    /\ uniforms.objectColor \in Colors

----------------------------------------------------------------------------
(* Properties of the scene *)

\* the operations RenderScene called for the object it is at
ObjectOps == [i \in DOMAIN objectCalls |-> objectCalls[i].op]

\* RenderScene has drawn the object it is at
Drawn == objectCalls # << >> /\ objectCalls[Len(objectCalls)].op = "Draw"

\* one SetTransformations, then SetShaderColor or SetShaderTexture, a
\* SetTextureUVScale only after SetShaderTexture, then at most one
\* SetShaderMaterial, then the draw
DrawOrders ==
    { <<"SetTransformations", "SetShaderColor", "Draw">>,
      <<"SetTransformations", "SetShaderColor", "SetShaderMaterial", "Draw">>,
      <<"SetTransformations", "SetShaderTexture", "Draw">>,
      <<"SetTransformations", "SetShaderTexture", "SetShaderMaterial", "Draw">>,
      <<"SetTransformations", "SetShaderTexture", "SetTextureUVScale", "Draw">>,
      <<"SetTransformations", "SetShaderTexture", "SetTextureUVScale",
        "SetShaderMaterial", "Draw">> }

\* C12: in RenderScene every draw call is preceded, since the draw call
\* before it, by exactly one SetTransformations, then exactly one of
\* SetShaderColor and SetShaderTexture (and SetTextureUVScale only after a
\* SetShaderTexture), then at most one SetShaderMaterial, in this order.
C12_DrawAfterCallsInOrder ==
    Drawn => \E order \in DrawOrders :
                /\ Len(objectCalls) = Len(order)
                /\ \A i \in DOMAIN order : ObjectOps[i] = order[i]

\* RenderScene has drawn the marinade, which has a colour and a material,
\* after it drew the textured objects before it
C12_Witness ==
    /\ Drawn
    /\ Len(objectCalls) = 4
    /\ objectCalls[2].op = "SetShaderColor"
    /\ objectCalls[3] = [op |-> "SetShaderMaterial", tag |-> "tile"]
    /\ uniforms.bUseTexture = 0

\* the positions of the BindGLTextures calls among the texture calls
BindCalls == {i \in DOMAIN textureCalls : textureCalls[i] = "BindGLTextures"}

\* C13: BindGLTextures is called exactly once in the preparation of the
\* scene, after the last CreateGLTexture call and before any draw call; no
\* CreateGLTexture call comes after it.
C13_BindOnceAfterLastLoad ==
    /\ Cardinality(BindCalls) <= 1
    /\ \A i \in BindCalls : i = Len(textureCalls)
    /\ pc > Len(PrepareScene) => Cardinality(BindCalls) = 1
    /\ (\E i \in DOMAIN objectCalls : objectCalls[i].op = "Draw")
          => Cardinality(BindCalls) = 1

\* the eight textures were loaded, BindGLTextures was called after them,
\* and RenderScene has drawn an object with a texture
C13_Witness ==
    /\ Len(textureCalls) = Len(LoadSceneTextures)
    /\ BindCalls = {Len(textureCalls)}
    /\ m_loadedTextures = Len(textureCalls) - 1
    /\ Drawn
    /\ \E i \in DOMAIN objectCalls : objectCalls[i].op = "SetShaderTexture"
    /\ uniforms.bUseTexture = 1

\* C14: CreateGLTexture allocates one texture object when it succeeds and
\* none when it fails, so that the texture objects its calls allocated are as
\* many as the registered textures, and every decoded image is freed when the
\* call returns, also when it fails on the channel count.
C14_LoadAllocatesOnSuccessOnly ==
    /\ Cardinality({i \in DOMAIN loadLog : loadLog[i].ID # 0}) = m_loadedTextures
    /\ imageBuffers = 0

\* the model matrix m applied to the point p
Apply(m, p) ==
    << Round(m[1][1] * p[1] + m[1][2] * p[2] + m[1][3] * p[3] + m[1][4] * One),
       Round(m[2][1] * p[1] + m[2][2] * p[2] + m[2][3] * p[3] + m[2][4] * One),
       Round(m[3][1] * p[1] + m[3][2] * p[2] + m[3][3] * p[3] + m[3][4] * One) >>

\* the point p scaled, rotated about an axis, and moved
ScalePoint(v, p) == << Round(v[1] * p[1]), Round(v[2] * p[2]), Round(v[3] * p[3]) >>
RotateXPoint(deg, p) ==
    << p[1], Round(Cos(deg) * p[2] - Sin(deg) * p[3]),
             Round(Sin(deg) * p[2] + Cos(deg) * p[3]) >>
RotateYPoint(deg, p) ==
    << Round(Cos(deg) * p[1] + Sin(deg) * p[3]), p[2],
       Round(Cos(deg) * p[3] - Sin(deg) * p[1]) >>
RotateZPoint(deg, p) ==
    << Round(Cos(deg) * p[1] - Sin(deg) * p[2]),
       Round(Sin(deg) * p[1] + Cos(deg) * p[2]), p[3] >>
MovePoint(v, p) == << p[1] + v[1], p[2] + v[2], p[3] + v[3] >>

\* the origin and the unit points of the three axes
Points == { <<0, 0, 0>>, <<One, 0, 0>>, <<0, One, 0>>, <<0, 0, One>> }

\* C15: the matrix SetTransformations submits is
\* Translate * RotateZ * RotateY * RotateX * Scale: it takes a point to where
\* scaling, then rotating about X, about Y and about Z, then moving takes it.
\* For the scale (2,1,1), the rotations 0, 0 and 90 degrees about X, Y and Z
\* and the position (1,0,0) it takes (1,0,0) to (1,2,0). (Numbers are in
\* thousandths; the rotations of Transforms are quarter turns, for which the
\* rounding of Cos and Sin is exact.)
C15_ModelScalesRotatesThenMoves ==
    [][\A t \in Transforms :
          (/\ m_pShaderManager # "NULL"
           /\ lastCall'.op = "SetTransformations"
           /\ SetTransformations(t.scaleXYZ, t.X, t.Y, t.Z, t.positionXYZ))
          => /\ \A p \in Points :
                   Apply(uniforms'.model, p) =
                      MovePoint(t.positionXYZ,
                        RotateZPoint(t.Z,
                          RotateYPoint(t.Y,
                            RotateXPoint(t.X, ScalePoint(t.scaleXYZ, p)))))
             /\ (/\ t.scaleXYZ = <<2 * One, One, One>>
                 /\ <<t.X, t.Y, t.Z>> = <<0, 0, 90000>>
                 /\ t.positionXYZ = <<One, 0, 0>>)
                => Apply(uniforms'.model, <<One, 0, 0>>) = <<One, 2 * One, 0>>]_vars

\* SetTransformations submitted a matrix that takes (1,0,0) to (1,2,0)
C15_Witness ==
    /\ m_pShaderManager # "NULL"
    /\ lastCall.op = "SetTransformations"
    /\ Apply(uniforms.model, <<One, 0, 0>>) = <<One, 2 * One, 0>>
    /\ Apply(uniforms.model, <<0, 0, 0>>) = <<One, 0, 0>>

\* C16: after any CreateGLTexture calls at most MaxTextures textures are
\* registered: a call made when MaxTextures are registered registers no
\* further one.
C16_RegistryWithinCapacity == m_loadedTextures <= MaxTextures

\* every CreateGLTexture call so far succeeded
AllLoaded == \A i \in DOMAIN loadLog : loadLog[i].ok

\* the material defined first under the tag
Defined(tag) ==
    m_objectMaterials[1 + CHOOSE i \in TaggedIndices(tag) :
                             \A j \in TaggedIndices(tag) : i <= j]

\* C17: when every texture of PrepareScene loads, every tag RenderScene
\* passes to SetShaderTexture is registered and every tag it passes to
\* SetShaderMaterial is defined: at a draw call the texture slot submitted is
\* a registered one, not -1, and the material submitted is the defined one.
C17_SceneTagsResolve ==
    AllLoaded =>
       /\ \A i \in DOMAIN objectCalls :
             /\ objectCalls[i].op = "SetShaderTexture"
                   => objectCalls[i].tag \in RegisteredTags
             /\ objectCalls[i].op = "SetShaderMaterial"
                   => TaggedIndices(objectCalls[i].tag) # {}
       /\ Drawn =>
             /\ uniforms.bUseTexture = 1 => uniforms.objectTexture \in DOMAIN Registry
             /\ \A i \in DOMAIN objectCalls :
                   objectCalls[i].op = "SetShaderMaterial" =>
                      /\ uniforms.diffuseColor = Defined(objectCalls[i].tag).diffuseColor
                      /\ uniforms.specularColor = Defined(objectCalls[i].tag).specularColor
                      /\ uniforms.shininess = Defined(objectCalls[i].tag).shininess

\* all eight textures loaded and RenderScene has drawn a piece of meat, with
\* the texture in slot 7 and the clay material
C17_Witness ==
    /\ AllLoaded
    /\ m_loadedTextures = 8
    /\ Drawn
    /\ \E i \in DOMAIN objectCalls :
          objectCalls[i] = [op |-> "SetShaderTexture", tag |-> "meat"]
    /\ \E i \in DOMAIN objectCalls :
          objectCalls[i] = [op |-> "SetShaderMaterial", tag |-> "clay"]
    /\ uniforms.bUseTexture = 1
    /\ uniforms.objectTexture = 7
    /\ uniforms.shininess = clayMaterial.shininess

====
